---- MODULE Spec2Model ----
(***************************************************************************)
(* SkyDecoder: the ASTERIX block/record decoder (AsterixDecoder), the      *)
(* FSPEC/UAP expansion and the item/field parser (FieldParser), as a state *)
(* machine over the decoder's registry, its configuration and one          *)
(* decode_block call at a time.  Byte offsets are 0-based as in the C++;   *)
(* TLA+ sequences are 1-based, so byte i of a buffer d is d[i + 1].        *)
(***************************************************************************)
EXTENDS Integers, Sequences, FiniteSets, TLC

VARIABLES
    categories_,         \* AsterixDecoder::categories_ (the registered category numbers)
    strict_validation_,  \* AsterixDecoder::strict_validation_
    data,                \* the argument of the decode_block call
    pc,                  \* where the call stands: idle, multirecord, traditional, finish, done
    position,            \* ParseContext::position of the block's context
    record_count,        \* the local record_count of decode_multirecord_block
    block,               \* the AsterixBlock being built / returned
    rec_start,           \* history: the offset at which each record of block.messages began
    uninit_length,       \* the indeterminate value this call's AsterixMessage::length members hold
    raised,              \* history: the record attempts that threw, <<start offset, offset at the throw>>
    fs_in,               \* FSPEC study: the bytes handed to parse_field_specification
    fs_uap,              \* FSPEC study: the number of slots of the UAP
    fs_out,              \* FSPEC study: the result of parse_field_specification and parse_uap_items
    earlier,             \* the AsterixBlock an earlier decode_block call on the same data returned
    subject,             \* the AsterixMessage handed to validate_message
    verdict,             \* what validate_multirecord_block and validate_message returned
    it_call,             \* item study: the DataItem and the context handed to parse_data_item
    it_out,              \* item study: the ParsedDataItem and the context's position afterwards
    schemas,             \* AsterixDecoder::categories_: the definition registered under each number
    loads,               \* registry study, history: the load calls made, with what they returned
    listing,             \* registry study: what get_supported_categories returned
    file,                \* decode_file: the bytes read from the file
    offset,              \* decode_file: the local offset of the framing loop
    blocks,              \* decode_file: the local blocks, the vector it returns
    file_pc,             \* decode_file: none, framing, decoding (inside decode_block), returned
    bits_call,           \* bit study: the arguments of set_bits_in_bytes / extract_bits_from_bytes
    bits_out             \* bit study: the bytes after the write and the value read back

\* the variables only the calls after a decode and the item study write
\* the variables of the registry study, of decode_file and of the bit study
study_vars == <<loads, listing, file, offset, blocks, file_pc, bits_call, bits_out>>

call_vars == <<earlier, subject, verdict, it_call, it_out, study_vars>>

vars == <<categories_, strict_validation_, data, pc, position, record_count,
          block, uninit_length, rec_start, raised, fs_in, fs_uap, fs_out,
          earlier, subject, verdict, it_call, it_out, schemas, loads, listing,
          file, offset, blocks, file_pc, bits_call, bits_out>>

(***************************************************************************)
(* Bounds of the model                                                     *)
(***************************************************************************)
\* longest body (bytes after the 3-byte header) of the exhaustively enumerated blocks
MaxBody == 3
\* number of one-byte records (FSPEC 0x00) in the long blocks
LongRecords == 1025
\* longest chain of FX=1 bytes in the FSPEC-chain inputs
MaxChain == 17
\* largest UAP (in slots) of the FSPEC study
MaxUap == 113
\* longest buffer of the item study
MaxItemBytes == 4
\* widest field the bit study writes exhaustively, and its last start bit
MaxWidth == 4
MaxStartBit == 9
\* most blocks laid end to end in a file, and the number of blocks decode_file
\* is followed for
MaxFileBlocks == 2
MaxBlocks == 3

(***************************************************************************)
(* Program constants                                                       *)
(***************************************************************************)
\* parse_field_specification: while (fspec.size() < 16)
FspecSafetyLimit == 16
\* decode_multirecord_block: if (record_count > 1000) break
MaxRecordCount == 1000

(***************************************************************************)
(* Arithmetic helpers                                                      *)
(***************************************************************************)
Pow2(n) == 2 ^ n

\* bit b (0 = least significant) of x: (x & (1 << b)) != 0
BitSet(x, b) == ((x \div Pow2(b)) % 2) = 1

SeqOf(n, x) == [i \in 1..n |-> x]

\* s[lo] + ... + s[hi], by halves
RECURSIVE SumRange(_, _, _)
SumRange(s, lo, hi) ==
    IF lo > hi THEN 0
    ELSE IF lo = hi THEN s[lo]
    ELSE SumRange(s, lo, (lo + hi) \div 2) + SumRange(s, (lo + hi) \div 2 + 1, hi)

SumSeq(s) == SumRange(s, 1, Len(s))

(***************************************************************************)
(* The category schema: the populated AsterixCategory of cat02.xml         *)
(***************************************************************************)
NoCondition == [has |-> FALSE, field_name |-> "", expected_value |-> 0]

\* a Field of the schema; has_bits is FALSE when the XML gives no bits attribute
\* (Field::bits then keeps an indeterminate value)
Fld(name, type, bits) ==
    [name |-> name, type |-> type, bits |-> bits, has_bits |-> TRUE,
     condition |-> NoCondition, extension_fields |-> <<>>]

FldNoBits(name, type) ==
    [name |-> name, type |-> type, bits |-> 0, has_bits |-> FALSE,
     condition |-> NoCondition, extension_fields |-> <<>>]

\* XmlParser::parse_data_item hangs an <extension> on the first field named FX or FX2
FldExt(name, type, bits, cond_field, cond_value, ext) ==
    [name |-> name, type |-> type, bits |-> bits, has_bits |-> TRUE,
     condition |-> [has |-> TRUE, field_name |-> cond_field, expected_value |-> cond_value],
     extension_fields |-> ext]

Item(id, format, has_length, length, fields) ==
    [id |-> id, format |-> format, has_length |-> has_length, length |-> length,
     fields |-> fields]

\* <user_application_profile> of cat02.xml
UapItems ==
    << "I002/010", "I002/000", "I002/020", "I002/030", "I002/041", "I002/050",
       "I002/060", "spare", "I002/070", "I002/100", "I002/090", "I002/080",
       "spare", "I002/SP", "I002/RE" >>

\* <data_items> of cat02.xml, keyed by id (AsterixCategory::data_items)
DataItems ==
    [id \in {"I002/010", "I002/000", "I002/020", "I002/030", "I002/041", "I002/050",
             "I002/060", "I002/070", "I002/100", "I002/090", "I002/080",
             "I002/SP", "I002/RE"} |->
       CASE id = "I002/010" -> Item(id, "FIXED", TRUE, 2,
                 << Fld("SAC", "uint8", 8), Fld("SIC", "uint8", 8) >>)
         [] id = "I002/000" -> Item(id, "FIXED", TRUE, 1,
                 << Fld("MESSAGE_TYPE", "uint8", 8) >>)
         [] id = "I002/020" -> Item(id, "FIXED", TRUE, 1,
                 << Fld("SECTOR", "uint8", 8) >>)
         [] id = "I002/030" -> Item(id, "FIXED", TRUE, 3,
                 << Fld("ToD", "uint24", 24) >>)
         [] id = "I002/041" -> Item(id, "FIXED", TRUE, 2,
                 << Fld("ARP", "uint16", 16) >>)
         [] id = "I002/050" -> Item(id, "VARIABLE", FALSE, 0,
                 << Fld("FX", "bool", 1) >>)
         [] id = "I002/060" -> Item(id, "VARIABLE", FALSE, 0,
                 << Fld("FX", "bool", 1) >>)
         [] id = "I002/070" -> Item(id, "REPETITIVE", FALSE, 0,
                 << Fld("REP", "uint8", 8) >>)
         [] id = "I002/100" -> Item(id, "FIXED", TRUE, 8,
                 << Fld("RHO_START", "uint16", 16), Fld("RHO_END", "uint16", 16),
                    Fld("THETA_START", "uint16", 16), Fld("THETA_END", "uint16", 16) >>)
         [] id = "I002/090" -> Item(id, "FIXED", TRUE, 2,
                 << Fld("RANGE_ERROR", "int8", 8), Fld("AZIMUTH_ERROR", "int8", 8) >>)
         [] id = "I002/080" -> Item(id, "VARIABLE", FALSE, 0,
                 << Fld("WE_VALUE", "uint7", 7),
                    FldExt("FX", "bool", 1, "FX", 1,
                           << Fld("WE_VALUE2", "uint7", 7), Fld("FX2", "bool", 1) >>) >>)
         [] id = "I002/SP" -> Item(id, "EXPLICIT", FALSE, 0,
                 << FldNoBits("data", "bytes") >>)
         [] id = "I002/RE" -> Item(id, "EXPLICIT", FALSE, 0,
                 << Fld("N", "uint8", 8), FldNoBits("rfs_data", "bytes") >>) ]

\* ValidationRule
Rule(field, type, has_condition, condition) ==
    [field |-> field, type |-> type, has_condition |-> has_condition,
     condition |-> condition]

\* <validation_rules> of cat02.xml, in document order
ValidationRules ==
    << Rule("I002/010", "mandatory", FALSE, ""),
       Rule("I002/000", "mandatory", FALSE, ""),
       Rule("I002/020", "conditional", TRUE, "message_type == 2"),
       Rule("I002/100", "conditional", TRUE, "message_type == 8"),
       Rule("I002/030", "optional", FALSE, ""),
       Rule("I002/041", "conditional", TRUE,
            "message_type == 1 || message_type == 2 && sector == 0"),
       Rule("I002/070", "conditional", TRUE,
            "message_type == 1 || message_type == 2 && sector == 0"),
       Rule("I002/090", "conditional", TRUE,
            "message_type == 1 || message_type == 2 && sector == 0") >>

\* the AsterixCategory a load of category number c registers
Category(c) ==
    [header |-> [category |-> c], uap |-> UapItems, data_items |-> DataItems,
     validation_rules |-> ValidationRules]

(***************************************************************************)
(* Indeterminate values: what a read of memory the program never wrote     *)
(* may yield (a byte past the end of the input buffer, a Field::bits the   *)
(* loader never set)                                                       *)
(***************************************************************************)
Garbage == { [byte |-> 0, bits |-> 8], [byte |-> 255, bits |-> 40] }

\* default-initialised uint8_t / uint16_t members that are never assigned
UninitValues == {0, 52428}

\* byte i of the buffer d; past the end of d the read is out of bounds
Mem(d, i, g) == IF i < Len(d) THEN d[i + 1] ELSE g.byte

(***************************************************************************)
(* FieldParser                                                             *)
(***************************************************************************)
\* the sum of the bits extract_bits sets for i..num_bits-1
RECURSIVE extract_bits_from(_, _, _, _)
extract_bits_from(bytes, start_bit, num_bits, i) ==
    IF i >= num_bits THEN 0
    ELSE LET current_byte == (start_bit \div 8) + (((start_bit % 8) + i) \div 8)
             current_bit  == 7 - (((start_bit % 8) + i) % 8)
         IN  (IF BitSet(bytes[current_byte + 1], current_bit)
                 THEN Pow2(num_bits - 1 - i) ELSE 0)
             + extract_bits_from(bytes, start_bit, num_bits, i + 1)

\* FieldParser::extract_bits; ok = FALSE is a throw
extract_bits(bytes, start_bit, num_bits) ==
    IF num_bits > 32 THEN [ok |-> FALSE, value |-> 0]
    ELSE IF num_bits > 0 /\ (start_bit + num_bits - 1) \div 8 >= Len(bytes)
         THEN [ok |-> FALSE, value |-> 0]
    ELSE [ok |-> TRUE, value |-> extract_bits_from(bytes, start_bit, num_bits, 0)]

\* the value of a w-bit pattern read as two's complement (static_cast to intw_t)
AsSigned(x, w) == IF x >= Pow2(w - 1) THEN x - Pow2(w) ELSE x

\* FieldParser::convert_raw_value: the FieldValue alternative and its value
convert_raw_value(raw_value, field) ==
    CASE field.type \in {"uint8", "uint1", "uint2", "uint3", "uint4", "uint5", "uint6", "uint7"} ->
            [t |-> "uint8", v |-> raw_value % 256]
      [] field.type \in {"uint16", "uint12", "uint14"} ->
            [t |-> "uint16", v |-> raw_value % 65536]
      [] field.type \in {"uint24", "uint32"} ->
            [t |-> "uint32", v |-> raw_value]
      [] field.type = "int8" ->
            [t |-> "int8", v |-> AsSigned(raw_value % 256, 8)]
      [] field.type = "int16" ->
            [t |-> "int16", v |-> AsSigned(raw_value % 65536, 16)]
      [] field.type = "int24" ->
            [t |-> "int32",
             v |-> IF BitSet(raw_value, 23)
                      THEN (raw_value % Pow2(24)) - Pow2(24)
                      ELSE AsSigned(raw_value, 32)]
      [] field.type = "int32" ->
            [t |-> "int32", v |-> AsSigned(raw_value, 32)]
      [] field.type = "bool" ->
            [t |-> "bool", v |-> IF raw_value # 0 THEN 1 ELSE 0]
      [] field.type = "string" ->
            [t |-> "string", v |-> raw_value]
      [] field.type = "bytes" ->
            [t |-> "bytes", v |-> raw_value]
      [] OTHER -> [t |-> "uint32", v |-> raw_value]

\* the value-initialised FieldValue of a ParsedField whose parse threw
DefaultValue == [t |-> "uint8", v |-> 0]

\* Field::bits as the parser reads it
BitsOf(field_def, g) == IF field_def.has_bits THEN field_def.bits ELSE g.bits

\* the ParsedField of a parse that threw
FailedField(field_def, msg) ==
    [name |-> field_def.name, value |-> DefaultValue, valid |-> FALSE, error_message |-> msg]

\* parse_field once extract_bits has returned raw (raw.ok = FALSE: it threw)
parse_field_value(field_def, raw, new_pos) ==
    IF raw.ok
    THEN [field |-> [name |-> field_def.name,
                     value |-> convert_raw_value(raw.value, field_def),
                     valid |-> TRUE, error_message |-> ""],
          pos |-> new_pos]
    ELSE [field |-> FailedField(field_def, "Cannot extract more than 32 bits"),
          pos |-> new_pos]

\* parse_field for a field of bits bits: read_field_bytes, extract_bits, convert
parse_field_bits(field_def, d, base, size, pos, g, bits) ==
    IF pos + ((bits + 7) \div 8) > size
    THEN [field |-> FailedField(field_def, "Insufficient data"), pos |-> pos]
    ELSE parse_field_value(field_def,
             extract_bits([i \in 1..((bits + 7) \div 8) |-> Mem(d, base + pos + i - 1, g)],
                          0, bits),
             pos + ((bits + 7) \div 8))

\* FieldParser::parse_field on a context over the size bytes that start at offset
\* base of d, standing at pos: the ParsedField and the context's new position
parse_field(field_def, d, base, size, pos, g) ==
    parse_field_bits(field_def, d, base, size, pos, g, BitsOf(field_def, g))

\* FieldParser::evaluate_condition for a condition "name==value"
RECURSIVE evaluate_condition(_, _)
evaluate_condition(condition, fields) ==
    IF fields = <<>> THEN FALSE
    ELSE LET field == Head(fields)
         IN  IF field.name = condition.field_name /\ field.value.t = "bool"
                THEN \/ (condition.expected_value = 1 /\ field.value.v = 1)
                     \/ (condition.expected_value = 0 /\ field.value.v = 0)
             ELSE IF field.name = condition.field_name /\ field.value.t = "uint8"
                THEN field.value.v = condition.expected_value
             ELSE evaluate_condition(condition, Tail(fields))

\* FieldParser::parse_extension_fields: the fields parsed and the context's position
RECURSIVE parse_extension_fields(_, _, _, _, _, _)
RECURSIVE parse_extension_rest(_, _, _, _, _, _)

\* the rest of the loop of parse_extension_fields after the field one
parse_extension_rest(extension_fields, d, base, size, one, g) ==
    [parse_extension_fields(extension_fields, d, base, size, one.pos, g)
        EXCEPT !.fields = <<one.field>> \o @]

parse_extension_fields(extension_fields, d, base, size, pos, g) ==
    IF extension_fields = <<>> THEN [fields |-> <<>>, pos |-> pos]
    ELSE IF Head(extension_fields).name = "spare"
    THEN parse_extension_fields(Tail(extension_fields), d, base, size, pos, g)
    ELSE parse_extension_rest(Tail(extension_fields), d, base, size,
                              parse_field(Head(extension_fields), d, base, size, pos, g), g)

\* whether parse_data_item parses the extension fields of field_def, given the
\* fields parsed so far
takes_extension(field_def, fields) ==
    /\ field_def.condition.has
    /\ field_def.extension_fields # <<>>
    /\ evaluate_condition(field_def.condition, fields)

\* the field loop of parse_data_item: item_pos is item_context.position, which
\* only parse_extension_fields moves; each field reads a copy set to bit_offset / 8
RECURSIVE parse_item_fields(_, _, _, _, _, _, _, _)
RECURSIVE parse_item_fields_ext(_, _, _, _, _, _, _, _, _)
RECURSIVE parse_item_fields_next(_, _, _, _, _, _, _, _)

\* the loop after the extension fields ext of the current field were parsed
parse_item_fields_next(field_defs, d, base, size, bit_offset, ext, fields, g) ==
    parse_item_fields(field_defs, d, base, size, bit_offset, ext.pos,
                      fields \o ext.fields, g)

\* the loop after the current field was pushed to fields
parse_item_fields_ext(field_def, field_defs, d, base, size, bit_offset, item_pos, fields, g) ==
    parse_item_fields_next(field_defs, d, base, size, bit_offset + BitsOf(field_def, g),
        IF takes_extension(field_def, fields)
        THEN parse_extension_fields(field_def.extension_fields, d, base, size, item_pos, g)
        ELSE [fields |-> <<>>, pos |-> item_pos],
        fields, g)

parse_item_fields(field_defs, d, base, size, bit_offset, item_pos, result_fields, g) ==
    IF field_defs = <<>> THEN result_fields
    ELSE IF Head(field_defs).name = "spare"
    THEN parse_item_fields(Tail(field_defs), d, base, size,
                           bit_offset + BitsOf(Head(field_defs), g), item_pos,
                           result_fields, g)
    ELSE parse_item_fields_ext(Head(field_defs), Tail(field_defs), d, base, size,
             bit_offset, item_pos,
             Append(result_fields,
                    parse_field(Head(field_defs), d, base, size, bit_offset \div 8, g).field),
             g)

\* a faulty variant of variable_scan: the scan stops after the first byte whatever
\* its FX bit
variable_scan_first_byte(d, start_position, bytes_to_read) ==
    IF start_position + bytes_to_read > Len(d) THEN 0 ELSE bytes_to_read

\* the VARIABLE scan of parse_data_item: bytes_to_read, or 0 when has_data fails (a throw)
RECURSIVE variable_scan(_, _, _)
variable_scan(d, start_position, bytes_to_read) ==
    IF start_position + bytes_to_read > Len(d) THEN 0
    ELSE IF ~BitSet(d[start_position + bytes_to_read], 0) THEN bytes_to_read
    ELSE variable_scan(d, start_position, bytes_to_read + 1)

FailedItem(item_def, msg, pos) ==
    [item |-> [id |-> item_def.id, fields |-> <<>>, valid |-> FALSE, error_message |-> msg],
     position |-> pos]

\* the tail of parse_data_item once bytes_to_read is known
parse_item_body(item_def, d, start_position, bytes_to_read, g) ==
    [item |-> [id |-> item_def.id,
               fields |-> parse_item_fields(item_def.fields, d, start_position,
                                            bytes_to_read, 0, 0, <<>>, g),
               valid |-> TRUE, error_message |-> ""],
     position |-> start_position + bytes_to_read]

\* FieldParser::parse_data_item on the context (d, pos): the ParsedDataItem and
\* the context's new position
parse_data_item(item_def, d, pos, g) ==
    CASE item_def.format = "FIXED" ->
            IF item_def.has_length
            THEN parse_item_body(item_def, d, pos, item_def.length, g)
            ELSE FailedItem(item_def, "Fixed format requires length specification", pos)
      [] item_def.format = "EXPLICIT" ->
            IF pos + 1 > Len(d)
            THEN FailedItem(item_def, "Insufficient data for explicit length", pos)
            ELSE parse_item_body(item_def, d, pos, d[pos + 1], g)
      [] item_def.format = "REPETITIVE" ->
            IF pos + 1 > Len(d)
            THEN FailedItem(item_def, "Insufficient data for repetitive length", pos)
            ELSE IF item_def.has_length
            THEN parse_item_body(item_def, d, pos, d[pos + 1] * item_def.length, g)
            ELSE FailedItem(item_def, "Repetitive format requires length specification",
                            pos + 1)
      [] item_def.format = "VARIABLE" ->
            IF variable_scan(d, pos, 1) = 0
            THEN FailedItem(item_def, "Insufficient data for variable length field", pos)
            ELSE parse_item_body(item_def, d, pos, variable_scan(d, pos, 1), g)

(***************************************************************************)
(* AsterixDecoder: FSPEC and UAP                                           *)
(***************************************************************************)
\* the do-while of parse_field_specification; ok = FALSE is the throw
\* "Insufficient data for FSPEC", position the context's position at that point
RECURSIVE parse_fspec_loop(_, _, _)
parse_fspec_loop(d, pos, fspec) ==
    IF pos + 1 > Len(d)
    THEN [ok |-> FALSE, fspec |-> fspec, position |-> pos]
    ELSE IF ~BitSet(d[pos + 1], 0)
    THEN [ok |-> TRUE, fspec |-> Append(fspec, d[pos + 1]), position |-> pos + 1]
    ELSE IF Len(fspec) + 1 < FspecSafetyLimit
    THEN parse_fspec_loop(d, pos + 1, Append(fspec, d[pos + 1]))
    ELSE [ok |-> TRUE, fspec |-> Append(fspec, d[pos + 1]), position |-> pos + 1]

\* AsterixDecoder::parse_field_specification on the context (d, pos)
parse_field_specification(d, pos) == parse_fspec_loop(d, pos, <<>>)

\* bits_to_check of parse_uap_items: the last byte uses all bits
bits_to_check(fspec, byte_idx) == IF byte_idx = Len(fspec) - 1 THEN 8 ELSE 7

\* a faulty variant of uap_bits: push_back replaced by an insert at the front
RECURSIVE uap_bits_front(_, _, _, _, _)
uap_bits_front(fspec, uap_size, byte_idx, bit, w) ==
    IF bit < 8 - bits_to_check(fspec, byte_idx) \/ w.bit_index >= uap_size THEN w
    ELSE uap_bits_front(fspec, uap_size, byte_idx, bit - 1,
                  [present |-> IF BitSet(fspec[byte_idx + 1], bit)
                                  THEN <<w.bit_index + 1>> \o w.present
                                  ELSE w.present,
                   bit_index |-> w.bit_index + 1])

\* the inner loop of parse_uap_items over the bits of one FSPEC byte, from bit 7
\* down to bit 8 - bits_to_check; w holds present (bit_index + 1, the 1-based UAP
\* slot, where the code pushes uap.items[bit_index]) and bit_index
RECURSIVE uap_bits(_, _, _, _, _)
uap_bits(fspec, uap_size, byte_idx, bit, w) ==
    IF bit < 8 - bits_to_check(fspec, byte_idx) \/ w.bit_index >= uap_size THEN w
    ELSE uap_bits(fspec, uap_size, byte_idx, bit - 1,
                  [present |-> IF BitSet(fspec[byte_idx + 1], bit)
                                  THEN Append(w.present, w.bit_index + 1)
                                  ELSE w.present,
                   bit_index |-> w.bit_index + 1])

\* the outer loop of parse_uap_items over the FSPEC bytes
RECURSIVE uap_walk(_, _, _, _)
uap_walk(fspec, uap_size, byte_idx, w) ==
    IF byte_idx >= Len(fspec) THEN w.present
    ELSE uap_walk(fspec, uap_size, byte_idx + 1,
                  uap_bits(fspec, uap_size, byte_idx, 7, w))

\* the UAP slots (1-based) parse_uap_items selects, in the order it pushes them
selected_slots(fspec, uap_size) ==
    uap_walk(fspec, uap_size, 0, [present |-> <<>>, bit_index |-> 0])

\* uap.items at the slots given
items_at(uap, slots) == [k \in 1..Len(slots) |-> uap[slots[k]]]

\* AsterixDecoder::parse_uap_items
parse_uap_items(fspec, uap) == items_at(uap, selected_slots(fspec, Len(uap)))

(***************************************************************************)
(* AsterixDecoder: records                                                 *)
(***************************************************************************)
\* the item loop of decode_single_record / decode_message_internal
RECURSIVE decode_items(_, _, _, _, _, _)
RECURSIVE decode_items_next(_, _, _, _, _, _)

\* the loop after parse_data_item returned parsed
decode_items_next(present_items, category, d, parsed, items, g) ==
    decode_items(present_items, category, d, parsed.position, Append(items, parsed.item), g)

decode_items(present_items, category, d, pos, items, g) ==
    IF present_items = <<>> THEN [data_items |-> items, position |-> pos]
    ELSE IF \/ Head(present_items) = "spare"
            \/ Head(present_items) = ""
            \/ Head(present_items) \notin DOMAIN category.data_items
    THEN decode_items(Tail(present_items), category, d, pos, items, g)
    ELSE decode_items_next(Tail(present_items), category, d,
             parse_data_item(category.data_items[Head(present_items)], d, pos, g),
             items, g)

\* the AsterixMessage of a record whose FSPEC could not be read
FailedRecord(category, length) ==
    [category |-> category.header.category, length |-> length, valid |-> FALSE,
     error_message |-> "Insufficient data for FSPEC", data_items |-> <<>>]

\* a faulty variant of single_record_result: record.length counted from the end
\* of the FSPEC instead of record_start
single_record_result_items_only(category, record_start, got) ==
    [ok |-> TRUE, position |-> got.position,
     record |-> [category |-> category.header.category,
                 length |-> (got.position - record_start - 1) % 65536,
                 valid |-> TRUE, error_message |-> "",
                 data_items |-> got.data_items]]

\* decode_single_record once the items are decoded: record.length and record.valid
single_record_result(category, record_start, got) ==
    [ok |-> TRUE, position |-> got.position,
     record |-> [category |-> category.header.category,
                 length |-> (got.position - record_start) % 65536,
                 valid |-> TRUE, error_message |-> "",
                 data_items |-> got.data_items]]

\* decode_single_record after parse_field_specification returned fs
single_record_items(category, d, pos, fs, g) ==
    IF ~fs.ok
    THEN [ok |-> FALSE, position |-> fs.position, record |-> FailedRecord(category, 0)]
    ELSE single_record_result(category, pos,
             decode_items(parse_uap_items(fs.fspec, category.uap), category, d,
                          fs.position, <<>>, g))

\* AsterixDecoder::decode_single_record on the context (d, pos); ok = FALSE is the
\* exception parse_field_specification lets through
decode_single_record(category, d, pos, g) ==
    single_record_items(category, d, pos, parse_field_specification(d, pos), g)

\* decode_message_internal once the items are decoded: message.valid = true
message_result(category, got, u) ==
    [position |-> got.position,
     record |-> [category |-> category.header.category, length |-> u,
                 valid |-> TRUE, error_message |-> "",
                 data_items |-> got.data_items]]

\* decode_message_internal after parse_field_specification returned fs
message_items(category, d, fs, g, u) ==
    IF ~fs.ok
    THEN [position |-> fs.position, record |-> FailedRecord(category, u)]
    ELSE message_result(category,
             decode_items(parse_uap_items(fs.fspec, category.uap), category, d,
                          fs.position, <<>>, g), u)

\* AsterixDecoder::decode_message_internal; it never assigns message.length, which
\* keeps an indeterminate value u (the same for every message of one call here)
decode_message_internal(category, d, pos, g, u) ==
    message_items(category, d, parse_field_specification(d, pos), g, u)

(***************************************************************************)
(* Inputs                                                                  *)
(***************************************************************************)
\* category numbers a definition file exists for
LoadableCategories == {1, 2}

\* category bytes of the blocks (3 is never registered)
HeaderCategories == {1, 2, 3}

BodyBytes == {0, 1, 2, 96, 128}

Bodies == UNION { [1..n -> BodyBytes] : n \in 0..MaxBody }

\* declared lengths tried for a block of size bytes
DeclaredLengths(size) == {0, 3, size - 1, size, size + 1}

Header(c, len) == << c, len \div 256, len % 256 >>

ShortInputs ==
    { Header(in[1], in[3]) \o in[2] :
        in \in { x \in HeaderCategories \X Bodies \X (0..(MaxBody + 4)) :
                    x[3] \in DeclaredLengths(Len(x[2]) + 3) } }

\* inputs too small to hold a header
TinyInputs == { <<>>, <<2>>, <<2, 0>> }

\* LongRecords records of one byte each (FSPEC 0x00), declared length = size
LongInputs == { Header(c, 3 + LongRecords) \o SeqOf(LongRecords, 0) : c \in LoadableCategories }

\* a declared length far past the end of the input
FarInputs == { Header(c, 65535) \o b : c \in LoadableCategories, b \in {<<>>, <<1>>} }

\* FSPEC chains of n bytes with FX = 1, with and without a byte after them
ChainInputs ==
    { Header(c, 3 + n + Len(t)) \o SeqOf(n, 1) \o t :
        c \in LoadableCategories, n \in (FspecSafetyLimit - 1)..MaxChain, t \in {<<>>, <<0>>} }

\* the block of AsterixCAT002TestValidator::run_test: five records
test_message ==
    << 2, 0, 22,
       240, 0, 16, 1, 0, 18, 52, 86,
       120, 154, 188, 0, 0, 0, 0, 0,
       0, 0, 0 >>

\* a sector crossing message (I002/000 MESSAGE_TYPE = 2) with I002/010 and no
\* I002/020: FSPEC 0xC0, SAC 0, SIC 16, MESSAGE_TYPE 2
sector_crossing_without_sector == << 2, 0, 7, 192, 0, 16, 2 >>

Inputs ==
    ShortInputs \cup TinyInputs \cup LongInputs \cup FarInputs \cup ChainInputs
    \cup {test_message, sector_crossing_without_sector}

(***************************************************************************)
(* The state machine                                                       *)
(***************************************************************************)
\* AsterixBlock before decode_block has filled it
EmptyBlock == [category |-> 0, length |-> 0, valid |-> FALSE, messages |-> <<>>]

Init ==
    /\ categories_ = {}
    /\ strict_validation_ = FALSE
    /\ data = <<>>
    /\ pc = "idle"
    /\ position = 0
    /\ record_count = 0
    /\ block = EmptyBlock
    /\ uninit_length = 0
    /\ rec_start = <<>>
    /\ raised = <<>>
    /\ fs_in = <<>>
    /\ fs_uap = 0
    /\ fs_out = [ok |-> FALSE, fspec |-> <<>>, position |-> 0, slots |-> <<>>]
    /\ earlier = <<>>
    /\ subject = <<>>
    /\ verdict = <<>>
    /\ it_call = <<>>
    /\ it_out = <<>>
    /\ schemas = <<>>
    /\ loads = <<>>
    /\ listing = <<>>
    /\ file = <<>>
    /\ offset = 0
    /\ blocks = <<>>
    /\ file_pc = "none"
    /\ bits_call = <<>>
    /\ bits_out = <<>>

\* AsterixDecoder::load_category_definition, the parse succeeding
load_category_definition(c) ==
    /\ pc = "idle"
    /\ categories_' = categories_ \cup {c}
    /\ schemas' = [n \in categories_ \cup {c} |-> IF n = c THEN "cat02.xml" ELSE schemas[n]]
    /\ UNCHANGED <<strict_validation_, data, pc, position, record_count, block,
                   uninit_length, rec_start, raised, fs_in, fs_uap, fs_out>>
    /\ UNCHANGED call_vars

\* AsterixDecoder::set_strict_validation
set_strict_validation(strict) ==
    /\ pc = "idle"
    /\ strict_validation_' = strict
    /\ UNCHANGED <<categories_, schemas, data, pc, position, record_count, block,
                   uninit_length, rec_start, raised, fs_in, fs_uap, fs_out>>
    /\ UNCHANGED call_vars

\* a faulty variant of category_supported: the lookup never fails
category_always_supported(c) == TRUE

\* the registry lookup of decode_block
category_supported(c) == c \in categories_

\* AsterixDecoder::decode_block up to the dispatch: the size check, the header,
\* the registry lookup and, for an unsupported category, the catch
decode_block(d) ==
    /\ data' = d
    /\ rec_start' = <<>>
    /\ raised' = <<>>
    /\ record_count' = 0
    /\ IF Len(d) < 3
       THEN /\ \E u1, u2 \in UninitValues :
                 block' = [category |-> u1 % 256, length |-> u2,
                           valid |-> FALSE, messages |-> <<>>]
            /\ position' = 0
            /\ uninit_length' = 0
            /\ pc' = "done"
       ELSE LET category == d[1]
                length   == d[2] * 256 + d[3]
            IN  /\ block' = [category |-> category, length |-> length,
                             valid |-> FALSE, messages |-> <<>>]
                /\ position' = 3
                /\ IF category_supported(category) /\ category # 2
                   THEN uninit_length' \in UninitValues
                   ELSE uninit_length' = 0
                /\ pc' = IF ~category_supported(category) THEN "done"
                         ELSE IF category = 2 THEN "multirecord"
                         ELSE "traditional"
    /\ UNCHANGED <<categories_, schemas, strict_validation_, fs_in, fs_uap, fs_out>>

\* the loop condition of decode_multirecord_block
multirecord_continues == position < block.length

\* "Avoid infinite loops" at the end of an iteration of decode_multirecord_block
record_limit_reached(count) == count > MaxRecordCount

\* a faulty variant of advance_one_byte: the catch leaves the position alone
advance_no_byte(pos, block_end) == pos

\* the catch of decode_multirecord_block, strict_validation_ off: the position
\* after "advance by one byte"
advance_one_byte(pos, block_end) == IF pos < block_end THEN pos + 1 ELSE pos

\* an iteration of decode_multirecord_block after decode_single_record gave r
multirecord_step(r) ==
    IF r.ok
    THEN /\ block' = [block EXCEPT !.messages = Append(@, r.record)]
         /\ rec_start' = Append(rec_start, position)
         /\ raised' = raised
         /\ position' = r.position
         /\ pc' = IF record_limit_reached(record_count + 1)
                  THEN "finish" ELSE "multirecord"
    ELSE /\ block' = block
         /\ rec_start' = rec_start
         /\ raised' = Append(raised, <<position, r.position>>)
         /\ IF strict_validation_
            THEN /\ position' = r.position
                 /\ pc' = "finish"
            ELSE /\ position' = advance_one_byte(r.position, block.length)
                 /\ pc' = IF record_limit_reached(record_count + 1)
                          THEN "finish" ELSE "multirecord"

\* one iteration of the while loop of decode_multirecord_block
multirecord_iteration ==
    /\ pc = "multirecord"
    /\ multirecord_continues
    /\ record_count' = record_count + 1
    /\ \E g \in Garbage :
         multirecord_step(decode_single_record(Category(block.category), data, position, g))
    /\ UNCHANGED <<categories_, schemas, strict_validation_, data, uninit_length, fs_in, fs_uap, fs_out>>
    /\ UNCHANGED call_vars

\* the loop condition of decode_traditional_block
traditional_continues == position < block.length /\ position + 1 <= Len(data)

\* an iteration of decode_traditional_block after decode_message_internal gave m
traditional_step(m) ==
    /\ block' = [block EXCEPT !.messages = Append(@, m.record)]
    /\ rec_start' = Append(rec_start, position)
    /\ raised' = IF m.record.valid THEN raised
                 ELSE Append(raised, <<position, m.position>>)
    /\ position' = m.position
    /\ pc' = IF ~m.record.valid THEN "finish" ELSE "traditional"

\* one iteration of the while loop of decode_traditional_block
traditional_iteration ==
    /\ pc = "traditional"
    /\ traditional_continues
    /\ \E g \in Garbage :
         traditional_step(decode_message_internal(Category(block.category), data,
                                                  position, g, uninit_length))
    /\ UNCHANGED <<categories_, schemas, strict_validation_, data, record_count, uninit_length,
                   fs_in, fs_uap, fs_out>>
    /\ UNCHANGED call_vars

\* decode_block after the record loop has ended: block.valid = true; return block
decode_block_return ==
    /\ \/ pc = "finish"
       \/ pc = "multirecord" /\ ~multirecord_continues
       \/ pc = "traditional" /\ ~traditional_continues
    /\ block' = [block EXCEPT !.valid = TRUE]
    /\ pc' = "done"
    /\ UNCHANGED <<categories_, schemas, strict_validation_, data, position, record_count,
                   uninit_length, rec_start, raised, fs_in, fs_uap, fs_out>>
    /\ UNCHANGED call_vars

\* a caller configures the decoder, then decodes one block
configure ==
    /\ pc = "idle"
    /\ \/ \E c \in LoadableCategories : load_category_definition(c)
       \/ \E strict \in BOOLEAN : set_strict_validation(strict)

decode_block_call ==
    /\ pc = "idle"
    /\ \E d \in Inputs : decode_block(d)
    /\ UNCHANGED call_vars

Next ==
    \/ configure
    \/ decode_block_call
    \/ multirecord_iteration
    \/ traditional_iteration
    \/ decode_block_return

Spec == Init /\ [][Next]_vars

\* a decode_block call is running: in one of its record loops or about to return
Running == pc \in {"multirecord", "traditional", "finish"}

\* a decode_block call that has begun keeps running.  Its return is not held up
\* for ever, and neither are its loops: a running call always has a step to take
\* (an iteration while the loop condition holds, the return once it fails), so
\* it is infinitely often not running or infinitely often taking a step.
SpecLive ==
    /\ Spec
    /\ WF_vars(decode_block_return)
    /\ ([]<>(~Running) \/ []<><<Running>>_vars)

\* a caller that has a result calls decode_block once more with the same input
\* bytes, the same registry and the same configuration, keeping the first result
decode_block_again ==
    /\ pc = "done"
    /\ earlier = <<>>
    /\ earlier' = <<block>>
    /\ decode_block(data)
    /\ UNCHANGED <<subject, verdict, it_call, it_out, study_vars>>

NextTwice == Next \/ decode_block_again

SpecTwice == Init /\ [][NextTwice]_vars

\* a caller that has the result of a block of category 1 or 2 decodes the same
\* body under the other category number, both numbers being registered with the
\* same definition: the other traversal over the same bytes and the same schema
decode_block_other ==
    /\ pc = "done"
    /\ earlier = <<>>
    /\ Len(data) >= 3
    /\ data[1] \in {1, 2}
    /\ {1, 2} \subseteq categories_
    /\ earlier' = <<block>>
    /\ decode_block(<<3 - data[1]>> \o Tail(data))
    /\ UNCHANGED <<subject, verdict, it_call, it_out, study_vars>>

NextBoth == Next \/ decode_block_other

SpecBoth == Init /\ [][NextBoth]_vars

(***************************************************************************)
(* Validation of a decoded block and of a decoded record                   *)
(***************************************************************************)
\* "for (const auto& item : record.data_items) if (item.id == id)"
has_item(message, id) ==
    \E k \in 1..Len(message.data_items) : message.data_items[k].id = id

\* AsterixDecoder::validate_multirecord_block
validate_multirecord_block(blk) ==
    IF blk.category # 2
    THEN TRUE
    ELSE LET calculated_length ==
                 3 + SumSeq([i \in 1..Len(blk.messages) |-> blk.messages[i].length])
         IN  /\ \A i \in 1..Len(blk.messages) :
                    /\ blk.messages[i].valid
                    /\ (~has_item(blk.messages[i], "I002/010") => ~strict_validation_)
                    /\ (~has_item(blk.messages[i], "I002/000") => ~strict_validation_)
             /\ (calculated_length # blk.length => ~strict_validation_)

\* a faulty variant of validate_mandatory_fields: a missing item is only warned about
validate_mandatory_fields_warn_only(message, category) == TRUE

\* AsterixDecoder::validate_mandatory_fields
validate_mandatory_fields(message, category) ==
    ~ \E r \in 1..Len(category.validation_rules) :
          /\ category.validation_rules[r].type = "mandatory"
          /\ ~has_item(message, category.validation_rules[r].field)
          /\ strict_validation_

\* AsterixDecoder::validate_conditional_fields: the loop body is empty
validate_conditional_fields(message, category) == TRUE

\* AsterixDecoder::validate_message
validate_message(message) ==
    IF message.category \notin categories_
    THEN FALSE
    ELSE IF ~validate_mandatory_fields(message, Category(message.category))
    THEN FALSE
    ELSE IF ~validate_conditional_fields(message, Category(message.category))
    THEN FALSE
    ELSE message.valid

\* the categories a block header can name that are never loaded
ForeignCategories == HeaderCategories \ LoadableCategories

\* the records a caller passes to validate_message: the records of the block
\* decode_block returned, as they are or carrying the category number of a
\* definition this decoder has not loaded
Subjects ==
    { [block.messages[i] EXCEPT !.category = c] :
        i \in 1..Len(block.messages),
        c \in {block.category} \cup ForeignCategories }

\* a caller passes the block decode_block returned to validate_multirecord_block
validate_multirecord_block_call ==
    /\ pc = "done"
    /\ verdict' = << [call |-> "validate_multirecord_block",
                      result |-> validate_multirecord_block(block)] >>
    /\ pc' = "validated"
    /\ UNCHANGED <<categories_, schemas, strict_validation_, data, position, record_count,
                   block, uninit_length, rec_start, raised, fs_in, fs_uap, fs_out,
                   earlier, subject, it_call, it_out, study_vars>>

\* a caller passes a record to validate_message
validate_message_call ==
    /\ pc = "done"
    /\ \E m \in Subjects :
         /\ subject' = <<m>>
         /\ verdict' = << [call |-> "validate_message", result |-> validate_message(m)] >>
    /\ pc' = "validated"
    /\ UNCHANGED <<categories_, schemas, strict_validation_, data, position, record_count,
                   block, uninit_length, rec_start, raised, fs_in, fs_uap, fs_out,
                   earlier, it_call, it_out, study_vars>>

NextValidate == Next \/ validate_multirecord_block_call \/ validate_message_call

SpecValidate == Init /\ [][NextValidate]_vars

(***************************************************************************)
(* FSPEC study: parse_field_specification and parse_uap_items applied to   *)
(* a context over fs_in and a UAP of fs_uap slots, slot i holding the id i *)
(***************************************************************************)
FspecBytes == {0, 1, 2, 128, 129, 254, 255}

FspecInputs ==
    UNION { [1..n -> FspecBytes] : n \in 0..2 }
    \cup { SeqOf(n, c) \o t : n \in 1..MaxChain, c \in {1, 129, 255},
                              t \in {<<>>, <<0>>, <<254>>} }

UapSizes == {0, 7, 15, MaxUap - 1, MaxUap}

\* a UAP of n slots, slot i holding the id i
NumberedUap(n) == [i \in 1..n |-> i]

\* what the two calls return: fs of parse_field_specification, then the items of
\* parse_uap_items (none when parse_field_specification threw)
fspec_result(fs, n) ==
    [ok |-> fs.ok, fspec |-> fs.fspec, position |-> fs.position,
     slots |-> IF fs.ok THEN parse_uap_items(fs.fspec, NumberedUap(n)) ELSE <<>>]

\* the first two steps of decode_single_record / decode_message_internal
expand_fspec ==
    /\ pc = "idle"
    /\ \E bytes \in FspecInputs, n \in UapSizes :
         /\ fs_in' = bytes
         /\ fs_uap' = n
         /\ fs_out' = fspec_result(parse_field_specification(bytes, 0), n)
    /\ pc' = "expanded"
    /\ UNCHANGED <<categories_, schemas, strict_validation_, data, position, record_count,
                   block, uninit_length, rec_start, raised>>
    /\ UNCHANGED call_vars

\* the caller drops the result
expand_reset ==
    /\ pc = "expanded"
    /\ pc' = "idle"
    /\ fs_in' = <<>>
    /\ fs_uap' = 0
    /\ fs_out' = [ok |-> FALSE, fspec |-> <<>>, position |-> 0, slots |-> <<>>]
    /\ UNCHANGED <<categories_, schemas, strict_validation_, data, position, record_count,
                   block, uninit_length, rec_start, raised>>
    /\ UNCHANGED call_vars

NextFspec == expand_fspec \/ expand_reset

SpecFspec == Init /\ [][NextFspec]_vars

(***************************************************************************)
(* Item study: FieldParser::parse_data_item applied to one DataItem of     *)
(* cat02.xml and a context over a short buffer                             *)
(***************************************************************************)
ItemBytes == {0, 1, 3, 5}

\* buffers that put every value in the high four bits of a byte, the signed
\* bytes 0xFF 0x80, and the byte sequences 03 02, 80, 81 02 and
\* 03 AA BB CC DD EE FF
ItemExamples ==
    { <<16 * k>> : k \in 0..15 }
    \cup { <<255, 128>>, <<3, 2>>, <<128>>, <<129, 2>>,
           <<3, 170, 187, 204, 221, 238, 255>> }

ItemBuffers == UNION { [1..n -> ItemBytes] : n \in 0..MaxItemBytes } \cup ItemExamples

\* a DataItem of format repetitive with <length>2</length>: a group of two bytes
RepetitiveItem ==
    Item("REP/2", "REPETITIVE", TRUE, 2,
         << Fld("FIRST", "uint8", 8), Fld("SECOND", "uint8", 8) >>)

\* a DataItem of one byte holding two signed fields of four bits
SignedNibblesItem ==
    Item("INT/4", "FIXED", TRUE, 1,
         << Fld("HIGH", "int8", 4), Fld("LOW", "int8", 4) >>)

\* the DataItem definitions of the category, and the two above
ItemDefs == { DataItems[id] : id \in DOMAIN DataItems } \cup {RepetitiveItem, SignedNibblesItem}

\* FieldParser::parse_data_item(item_def, context), the context over d standing at
\* pos (the record loop can leave it one byte past the end)
parse_item_call ==
    /\ pc = "idle"
    /\ \E item_def \in ItemDefs, d \in ItemBuffers, g \in Garbage :
         \E pos \in 0..(Len(d) + 1) :
            /\ it_call' = << [item_def |-> item_def, data |-> d, position |-> pos] >>
            /\ it_out' = << parse_data_item(item_def, d, pos, g) >>
    /\ pc' = "parsed"
    /\ UNCHANGED <<categories_, schemas, strict_validation_, data, position, record_count,
                   block, uninit_length, rec_start, raised, fs_in, fs_uap, fs_out,
                   earlier, subject, verdict, study_vars>>

\* the caller drops the result
parse_item_reset ==
    /\ pc = "parsed"
    /\ pc' = "idle"
    /\ it_call' = <<>>
    /\ it_out' = <<>>
    /\ UNCHANGED <<categories_, schemas, strict_validation_, data, position, record_count,
                   block, uninit_length, rec_start, raised, fs_in, fs_uap, fs_out,
                   earlier, subject, verdict, study_vars>>

NextItem == parse_item_call \/ parse_item_reset

SpecItem == Init /\ [][NextItem]_vars

(***************************************************************************)
(* AsterixDecoder::decode_file: the framing loop around decode_block       *)
(***************************************************************************)
\* what a file is made of: blocks whose header declares their size, headers
\* declaring 0, 1 and 2, a block cut short, and a fragment of a header
FileChunks ==
    { <<2, 0, 3>>, <<2, 0, 4, 0>>, <<1, 0, 4, 0>>, <<2, 0, 0>>, <<2, 0, 1>>,
      <<2, 0, 2>>, <<2, 0, 5, 0>>, <<2, 0>> }

RECURSIVE FilesOf(_)
FilesOf(n) ==
    IF n = 0 THEN { <<>> }
    ELSE FilesOf(n - 1) \cup { f \o c : f \in FilesOf(n - 1), c \in FileChunks }

\* the contents of the files read
Files == FilesOf(MaxFileBlocks)

\* uint16_t block_length = (data[offset + 1] << 8) | data[offset + 2]
block_length_at(f, off) == f[off + 2] * 256 + f[off + 3]

\* the framing loop goes on: neither the while condition nor a break ends it
decode_file_continues ==
    /\ offset < Len(file)
    /\ offset + 3 <= Len(file)
    /\ offset + block_length_at(file, offset) <= Len(file)

\* decode_file up to the loop: the whole file is read into data
decode_file_call ==
    /\ pc = "idle"
    /\ file_pc = "none"
    /\ \E f \in Files : file' = f
    /\ offset' = 0
    /\ blocks' = <<>>
    /\ file_pc' = "framing"
    /\ pc' = "file"
    /\ UNCHANGED <<categories_, schemas, strict_validation_, data, position, record_count,
                   block, uninit_length, rec_start, raised, fs_in, fs_uap, fs_out,
                   earlier, subject, verdict, it_call, it_out,
                   loads, listing, bits_call, bits_out>>

\* an iteration of the framing loop up to the call decode_block(block_data)
decode_file_frame ==
    /\ file_pc = "framing"
    /\ decode_file_continues
    /\ Len(blocks) < MaxBlocks
    /\ decode_block(SubSeq(file, offset + 1, offset + block_length_at(file, offset)))
    /\ file_pc' = "decoding"
    /\ UNCHANGED <<earlier, subject, verdict, it_call, it_out,
                   loads, listing, file, offset, blocks, bits_call, bits_out>>

\* the rest of the iteration once decode_block has returned:
\* blocks.push_back(block); offset += block_length
decode_file_collect ==
    /\ file_pc = "decoding"
    /\ pc = "done"
    /\ blocks' = Append(blocks, block)
    /\ offset' = offset + block_length_at(file, offset)
    /\ file_pc' = "framing"
    /\ pc' = "file"
    /\ UNCHANGED <<categories_, schemas, strict_validation_, data, position, record_count,
                   block, uninit_length, rec_start, raised, fs_in, fs_uap, fs_out,
                   earlier, subject, verdict, it_call, it_out,
                   loads, listing, file, bits_call, bits_out>>

\* the loop has ended: return blocks
decode_file_return ==
    /\ file_pc = "framing"
    /\ ~decode_file_continues
    /\ file_pc' = "returned"
    /\ UNCHANGED <<categories_, schemas, strict_validation_, data, pc, position, record_count,
                   block, uninit_length, rec_start, raised, fs_in, fs_uap, fs_out,
                   earlier, subject, verdict, it_call, it_out,
                   loads, listing, file, offset, blocks, bits_call, bits_out>>

NextFile ==
    \/ configure
    \/ decode_file_call
    \/ decode_file_frame
    \/ multirecord_iteration
    \/ traditional_iteration
    \/ decode_block_return
    \/ decode_file_collect
    \/ decode_file_return

SpecFile == Init /\ [][NextFile]_vars

(***************************************************************************)
(* Bit study: utils set_bits_in_bytes followed by extract_bits_from_bytes   *)
(***************************************************************************)
\* the sum of the bits extract_bits_from_bytes sets for i..num_bits-1; a bit past
\* the end of d reads as 0
RECURSIVE extract_bits_from_bytes_loop(_, _, _, _)
extract_bits_from_bytes_loop(d, start_bit, num_bits, i) ==
    IF i >= num_bits THEN 0
    ELSE LET byte_idx == (start_bit + i) \div 8
             bit_idx  == 7 - ((start_bit + i) % 8)
         IN  (IF byte_idx < Len(d) /\ BitSet(d[byte_idx + 1], bit_idx)
                 THEN Pow2(num_bits - 1 - i) ELSE 0)
             + extract_bits_from_bytes_loop(d, start_bit, num_bits, i + 1)

\* utils extract_bits_from_bytes
extract_bits_from_bytes(d, start_bit, num_bits) ==
    extract_bits_from_bytes_loop(d, start_bit, num_bits, 0)

\* data.resize(size, 0) when size is larger than the vector
resize_to(d, size) == IF size > Len(d) THEN d \o SeqOf(size - Len(d), 0) ELSE d

\* byte |= (1 << bit_idx) when on, byte &= ~(1 << bit_idx) otherwise
with_bit(byte, bit_idx, on) ==
    byte - (IF BitSet(byte, bit_idx) THEN Pow2(bit_idx) ELSE 0)
         + (IF on THEN Pow2(bit_idx) ELSE 0)

\* a faulty variant of set_bit_step: a 0 bit of value is not written
set_bit_step_or_only(d, start_bit, num_bits, value, i) ==
    LET byte_idx == (start_bit + i) \div 8
        bit_idx  == 7 - ((start_bit + i) % 8)
        grown    == resize_to(d, byte_idx + 1)
    IN  IF BitSet(value, num_bits - 1 - i)
        THEN [grown EXCEPT ![byte_idx + 1] = with_bit(@, bit_idx, TRUE)]
        ELSE grown

\* one iteration of the loop of set_bits_in_bytes
set_bit_step(d, start_bit, num_bits, value, i) ==
    LET byte_idx == (start_bit + i) \div 8
        bit_idx  == 7 - ((start_bit + i) % 8)
        grown    == resize_to(d, byte_idx + 1)
    IN  [grown EXCEPT ![byte_idx + 1] = with_bit(@, bit_idx, BitSet(value, num_bits - 1 - i))]

RECURSIVE set_bits_in_bytes_loop(_, _, _, _, _)
set_bits_in_bytes_loop(d, start_bit, num_bits, value, i) ==
    IF i >= num_bits THEN d
    ELSE set_bits_in_bytes_loop(set_bit_step(d, start_bit, num_bits, value, i),
                                start_bit, num_bits, value, i + 1)

\* utils set_bits_in_bytes: the vector afterwards
set_bits_in_bytes(d, start_bit, num_bits, value) ==
    set_bits_in_bytes_loop(d, start_bit, num_bits, value, 0)

\* the vectors written to
BitBuffers == UNION { [1..n -> {0, 165, 255}] : n \in 0..2 }

\* the widths written: the small ones, and one of 30 bits
BitWidths == (1..MaxWidth) \cup {30}

\* the values written: every value of one bit more than the widest small field,
\* and two of more than 30 bits
BitValues == (0..(Pow2(MaxWidth + 1) - 1)) \cup {Pow2(30) - 1, Pow2(30) + 715827882}

\* a caller writes value into data and reads the same bits back
set_then_extract ==
    /\ pc = "idle"
    /\ \E d \in BitBuffers, start_bit \in 0..MaxStartBit, num_bits \in BitWidths,
          value \in BitValues :
         /\ bits_call' = << [data |-> d, start_bit |-> start_bit,
                             num_bits |-> num_bits, value |-> value] >>
         /\ bits_out' = << [data |-> set_bits_in_bytes(d, start_bit, num_bits, value),
                            read |-> extract_bits_from_bytes(
                                        set_bits_in_bytes(d, start_bit, num_bits, value),
                                        start_bit, num_bits)] >>
    /\ pc' = "bits"
    /\ UNCHANGED <<categories_, schemas, strict_validation_, data, position, record_count,
                   block, uninit_length, rec_start, raised, fs_in, fs_uap, fs_out,
                   earlier, subject, verdict, it_call, it_out,
                   loads, listing, file, offset, blocks, file_pc>>

\* the caller drops the result
bits_reset ==
    /\ pc = "bits"
    /\ pc' = "idle"
    /\ bits_call' = <<>>
    /\ bits_out' = <<>>
    /\ UNCHANGED <<categories_, schemas, strict_validation_, data, position, record_count,
                   block, uninit_length, rec_start, raised, fs_in, fs_uap, fs_out,
                   earlier, subject, verdict, it_call, it_out,
                   loads, listing, file, offset, blocks, file_pc>>

NextBits == set_then_extract \/ bits_reset

SpecBits == Init /\ [][NextBits]_vars

(***************************************************************************)
(* Registry study: load_category_definition on definition files of every   *)
(* kind, load_categories_from_directory, get_supported_categories and a    *)
(* decode_block that looks the category up                                 *)
(***************************************************************************)
MaxLoads == 3

MaxDirectory == 2

\* a definition file: root says whether the document loads and has an
\* asterix_category root, header whether it has a <header>, category is the
\* text of <category>, character by character (<<>>: no such element)
Xml(name, root, header, category) ==
    [name |-> name, root |-> root, header |-> header, category |-> category]

XmlFiles ==
    { Xml("cat01.xml", TRUE, TRUE, << "0", "0", "1" >>),
      Xml("cat02.xml", TRUE, TRUE, << "0", "0", "2" >>),
      Xml("cat258.xml", TRUE, TRUE, << "2", "5", "8" >>),
      Xml("broken.xml", FALSE, FALSE, <<>>),
      Xml("bad_number.xml", TRUE, TRUE, << "x" >>),
      Xml("no_category.xml", TRUE, TRUE, <<>>),
      Xml("no_header.xml", TRUE, FALSE, <<>>) }

\* a directory entry that is not a definition file
NotesFile == Xml("notes.txt", FALSE, FALSE, <<>>)

is_xml(entry) == entry # NotesFile

DigitValue ==
    [ch \in {"0", "1", "2", "3", "4", "5", "6", "7", "8", "9"} |->
        CASE ch = "0" -> 0 [] ch = "1" -> 1 [] ch = "2" -> 2 [] ch = "3" -> 3
          [] ch = "4" -> 4 [] ch = "5" -> 5 [] ch = "6" -> 6 [] ch = "7" -> 7
          [] ch = "8" -> 8 [] ch = "9" -> 9]

\* std::stoi on the digits read so far (value) and the rest of the text:
\* it stops at the first character that is not a digit
RECURSIVE stoi_digits(_, _)
stoi_digits(value, text) ==
    IF text = <<>> \/ Head(text) \notin DOMAIN DigitValue
    THEN value
    ELSE stoi_digits(value * 10 + DigitValue[Head(text)], Tail(text))

\* std::stoi: std::invalid_argument when the text does not start with a digit
stoi(text) ==
    IF text = <<>> \/ Head(text) \notin DOMAIN DigitValue
    THEN [threw |-> TRUE, value |-> 0]
    ELSE [threw |-> FALSE, value |-> stoi_digits(0, text)]

\* XmlParser::parse_category: what it throws or the header.category of the
\* AsterixCategory it returns.  Without <header> the value-initialised member
\* is 0; with a <header> that has no <category> the local CategoryHeader of
\* parse_header is never assigned and the number is indeterminate
parse_category(x) ==
    IF ~x.root THEN { [threw |-> TRUE, category |-> 0] }
    ELSE IF ~x.header THEN { [threw |-> FALSE, category |-> 0] }
    ELSE IF x.category = <<>>
         THEN { [threw |-> FALSE, category |-> u % 256] : u \in UninitValues }
    ELSE IF stoi(x.category).threw THEN { [threw |-> TRUE, category |-> 0] }
    ELSE { [threw |-> FALSE, category |-> stoi(x.category).value % 256] }

\* a faulty variant of registered: a number that is taken keeps its definition
registered_if_absent(registry, cat_num, name) ==
    [n \in DOMAIN registry \cup {cat_num} |->
        IF n \in DOMAIN registry THEN registry[n] ELSE name]

\* categories_[cat_num] = std::move(category)
registered(registry, cat_num, name) ==
    [n \in DOMAIN registry \cup {cat_num} |->
        IF n = cat_num THEN name ELSE registry[n]]

\* load_category_definition on the file x when parse_category does o:
\* the registry afterwards and the record of the call
loaded(registry, x, o) ==
    IF o.threw THEN registry ELSE registered(registry, o.category, x.name)

load_record(x, o) ==
    [xml |-> x.name, cat_num |-> IF o.threw THEN -1 ELSE o.category,
     returned |-> ~o.threw]

\* AsterixDecoder::load_category_definition on any file
load_category_definition_xml ==
    /\ pc = "idle"
    /\ Len(loads) < MaxLoads
    /\ \E x \in XmlFiles : \E o \in parse_category(x) :
         /\ schemas' = loaded(schemas, x, o)
         /\ categories_' = DOMAIN loaded(schemas, x, o)
         /\ loads' = Append(loads, load_record(x, o))
    /\ UNCHANGED <<strict_validation_, data, pc, position, record_count, block,
                   uninit_length, rec_start, raised, fs_in, fs_uap, fs_out,
                   earlier, subject, verdict, it_call, it_out,
                   listing, file, offset, blocks, file_pc, bits_call, bits_out>>

\* the entries of the directories scanned
DirectoryEntries ==
    { x \in XmlFiles : x.name \in {"cat01.xml", "cat02.xml", "bad_number.xml"} }
        \cup {NotesFile}

\* the directories: their entries in the order the iterator yields them
Directories == UNION { [1..n -> DirectoryEntries] : n \in 0..MaxDirectory }

\* the loop of load_categories_from_directory over the entries left:
\* the registries and histories it can end with
RECURSIVE load_entries(_, _, _)
load_entries(registry, history, entries) ==
    IF entries = <<>> THEN { [registry |-> registry, history |-> history] }
    ELSE IF ~is_xml(Head(entries))
         THEN load_entries(registry, history, Tail(entries))
    ELSE UNION { load_entries(loaded(registry, Head(entries), o),
                              Append(history, load_record(Head(entries), o)),
                              Tail(entries)) :
                 o \in parse_category(Head(entries)) }

\* AsterixDecoder::load_categories_from_directory
load_categories_from_directory ==
    /\ pc = "idle"
    /\ \E dir \in Directories :
         /\ Len(loads) + Len(dir) <= MaxLoads
         /\ \E end \in load_entries(schemas, loads, dir) :
              /\ schemas' = end.registry
              /\ categories_' = DOMAIN end.registry
              /\ loads' = end.history
    /\ UNCHANGED <<strict_validation_, data, pc, position, record_count, block,
                   uninit_length, rec_start, raised, fs_in, fs_uap, fs_out,
                   earlier, subject, verdict, it_call, it_out,
                   listing, file, offset, blocks, file_pc, bits_call, bits_out>>

\* the orders in which a range-for over the unordered_map may yield its keys
IterationOrders(keys) ==
    { order \in [1..Cardinality(keys) -> keys] :
        \A i, j \in 1..Cardinality(keys) : i # j => order[i] # order[j] }

\* std::sort of a vector of uint8_t
RECURSIVE sort(_)
sort(v) ==
    IF v = <<>> THEN <<>>
    ELSE LET least == CHOOSE i \in 1..Len(v) : \A j \in 1..Len(v) : v[i] <= v[j]
         IN  << v[least] >> \o
             sort([k \in 1..(Len(v) - 1) |-> IF k < least THEN v[k] ELSE v[k + 1]])

\* AsterixDecoder::get_supported_categories
get_supported_categories ==
    /\ pc = "idle"
    /\ \E order \in IterationOrders(categories_) : listing' = << sort(order) >>
    /\ UNCHANGED <<categories_, schemas, strict_validation_, data, pc, position,
                   record_count, block, uninit_length, rec_start, raised,
                   fs_in, fs_uap, fs_out, earlier, subject, verdict, it_call, it_out,
                   loads, file, offset, blocks, file_pc, bits_call, bits_out>>

\* the category bytes of the blocks decoded after the loads
ProbeCategories == {0, 1, 2, 3, 204}

ProbeInputs ==
    { Header(c, 3) : c \in ProbeCategories }
      \cup { Header(c, 5) \o << 0, 0 >> : c \in {1, 2} }

decode_block_probe ==
    /\ pc = "idle"
    /\ \E d \in ProbeInputs : decode_block(d)
    /\ UNCHANGED call_vars

NextRegistry ==
    \/ load_category_definition_xml
    \/ load_categories_from_directory
    \/ get_supported_categories
    \/ decode_block_probe
    \/ multirecord_iteration
    \/ traditional_iteration
    \/ decode_block_return

SpecRegistry == Init /\ [][NextRegistry]_vars

(***************************************************************************)
(* Properties.  The vocabulary of the statements first: what the record    *)
(* layout rules say about a buffer, independently of the decoder.          *)
(***************************************************************************)
Min(a, b) == IF a < b THEN a ELSE b

\* the declared length of the header of d
DeclaredLength(d) == d[2] * 256 + d[3]

\* the length fields of the records of a block
RecordLengths(b) == [i \in 1..Len(b.messages) |-> b.messages[i].length]

\* the ids of the items of a record, in the order the record holds them
ItemIds(record) == [i \in 1..Len(record.data_items) |-> record.data_items[i].id]

\* the UAP slots an FSPEC selects by rule: bit b (7..1) of byte k (0-based) selects
\* slot 7k + (8 - b), when the UAP has that slot
RuleSlots(fspec, uap_size) ==
    { slot \in 1..uap_size :
        \E k \in 0..(Len(fspec) - 1), b \in 1..7 :
            slot = 7 * k + (8 - b) /\ BitSet(fspec[k + 1], b) }

\* the number of bytes of the FSPEC that starts at offset p of d: the bytes up to
\* the first one with FX = 0; 0 when there is none within FspecSafetyLimit bytes
RuleFspecLen(d, p) ==
    IF \E n \in 1..Min(FspecSafetyLimit, Len(d) - p) : ~BitSet(d[p + n], 0)
    THEN CHOOSE n \in 1..Min(FspecSafetyLimit, Len(d) - p) :
            /\ ~BitSet(d[p + n], 0)
            /\ \A m \in 1..(n - 1) : BitSet(d[p + m], 0)
    ELSE 0

\* the FSPEC bytes that start at offset p of d
RuleFspec(d, p) == SubSeq(d, p + 1, p + RuleFspecLen(d, p))

\* whether UAP slot holds a fixed-length item
FixedSlot(slot) ==
    /\ UapItems[slot] \in DOMAIN DataItems
    /\ DataItems[UapItems[slot]].format = "FIXED"
    /\ DataItems[UapItems[slot]].has_length

\* the declared lengths of the fixed-length items among the slots given, by slot
SlotLengths(slots) ==
    [slot \in 1..Len(UapItems) |->
        IF slot \in slots /\ FixedSlot(slot) THEN DataItems[UapItems[slot]].length ELSE 0]

\* the slots given, in increasing order
InSlotOrder(slots) ==
    SelectSeq([slot \in 1..Len(UapItems) |-> slot], LAMBDA slot : slot \in slots)

\* the offset just after the well-formed record that starts at offset p of d (an
\* FSPEC, then exactly the fixed-length items it selects); p itself at or after the
\* end of d; -1 when no well-formed record starts at p
RuleRecordEnd(d, p) ==
    IF p < 0 THEN -1
    ELSE IF p >= Len(d) THEN p
    ELSE IF RuleFspecLen(d, p) = 0 THEN -1
    ELSE IF \E k \in 0..(RuleFspecLen(d, p) - 1), b \in 1..7 :
               /\ BitSet(d[p + k + 1], b)
               /\ \/ 7 * k + (8 - b) > Len(UapItems)
                  \/ ~FixedSlot(Min(7 * k + (8 - b), Len(UapItems)))
    THEN -1
    ELSE IF p + RuleFspecLen(d, p)
              + SumSeq(SlotLengths(RuleSlots(RuleFspec(d, p), Len(UapItems)))) > Len(d)
    THEN -1
    ELSE p + RuleFspecLen(d, p)
           + SumSeq(SlotLengths(RuleSlots(RuleFspec(d, p), Len(UapItems))))

\* the offsets at which the first n records from offset p of d start, one after
\* the other, computed by halves
RECURSIVE RuleStarts(_, _, _)
RuleStartsJoin(d, first, n) ==
    first \o RuleStarts(d, RuleRecordEnd(d, first[Len(first)]), n)

RuleStarts(d, p, n) ==
    IF n = 0 THEN <<>>
    ELSE IF n = 1 THEN <<p>>
    ELSE RuleStartsJoin(d, RuleStarts(d, p, n \div 2), n - n \div 2)

\* the record boundaries of the body of d: entry i is the start of record i while
\* below Len(d), Len(d) once the body is used up, -1 after an ill-formed record
RuleBoundaries(d) == RuleStarts(d, 3, Len(d) - 2)

\* the body of d is a concatenation of well-formed records
\* (an ill-formed record leaves -1 in every later entry, so the last entry tells)
WellFormedBody(d) ==
    /\ Len(d) >= 3
    /\ RuleBoundaries(d)[Len(d) - 2] = Len(d)

\* the number of records of a well-formed body
RuleRecordCount(bounds, size) == Cardinality({ i \in 1..Len(bounds) : bounds[i] < size })

\* the slot of the UAP that holds id
SlotOf(id) == CHOOSE slot \in 1..Len(UapItems) : UapItems[slot] = id

\* the field names an item definition declares, extension fields after the field
\* that carries them
RECURSIVE DeclaredNames(_)
DeclaredNames(field_defs) ==
    IF field_defs = <<>> THEN <<>>
    ELSE <<Head(field_defs).name>> \o DeclaredNames(Head(field_defs).extension_fields)
         \o DeclaredNames(Tail(field_defs))

\* the place of name among the declared names
DeclaredIndex(names, name) == CHOOSE i \in 1..Len(names) : names[i] = name

\* the cat02.xml block decoder is registered and the call is a category-2 block
\* whose declared length is the input size
ExactCat02Block ==
    /\ Len(data) >= 3
    /\ data[1] = 2
    /\ 2 \in categories_
    /\ DeclaredLength(data) = Len(data)

(***************************************************************************)
(* Properties of decode_block (specification Spec)                         *)
(***************************************************************************)
\* C1: whenever decode_block returns a block with valid = true, 3 plus the sum of
\* the length fields of the returned records equals the block's declared length
\* (category 2 and every other registered category alike).
C1_LengthsSumToDeclaredLength ==
    (pc = "done" /\ block.valid)
        => 3 + SumSeq(RecordLengths(block)) = block.length

C3_OverlongDeclaredLengthInvalid ==
    (pc = "done" /\ Len(data) >= 3 /\ DeclaredLength(data) > Len(data))
        => /\ ~block.valid
           /\ block.category = data[1]
           /\ block.length = DeclaredLength(data)

\* C4: a decode_block call on an input whose category byte is not in the registry
\* returns at once (nothing thrown to the caller) a block with valid = false, no
\* records, category and length from the header; no step of a call changes the
\* registry.
C4_UnsupportedCategoryFailsBlock ==
    [][ /\ (pc = "idle" /\ data' # data /\ Len(data') >= 3 /\ data'[1] \notin categories_)
            => /\ pc' = "done"
               /\ ~block'.valid
               /\ block'.messages = <<>>
               /\ block'.category = data'[1]
               /\ block'.length = DeclaredLength(data')
        /\ (pc # "idle" \/ pc' # "idle") => categories_' = categories_ ]_vars

\* a block of an unregistered category has been returned by a decoder that has
\* some category registered
C4_UnsupportedCategoryReturned ==
    /\ pc = "done"
    /\ Len(data) >= 3
    /\ data[1] \notin categories_
    /\ categories_ # {}
    /\ ~block.valid

\* C5: when a record's FSPEC is a single byte with FX set and the input ends
\* there, the failure shows in the result: the block or one of its records is
\* marked invalid.
C5_DanglingFspecIsReported ==
    (/\ pc = "done"
     /\ Len(data) > 3
     /\ BitSet(data[Len(data)], 0)
     /\ \E i \in 1..Len(raised) : raised[i] = <<Len(data) - 1, Len(data)>>)
        => \/ ~block.valid
           \/ \E j \in 1..Len(block.messages) : ~block.messages[j].valid

\* C8: in every decode_block result the records are in the order of their start
\* offsets, the items of each record in strictly increasing UAP slot order, and
\* the fields of each item in the order the item definition declares them.
C8_WireUapAndDeclaredOrder ==
    /\ Len(rec_start) = Len(block.messages)
    /\ \A i \in 1..(Len(rec_start) - 1) : rec_start[i] < rec_start[i + 1]
    /\ \A i \in 1..Len(block.messages) :
         \A j \in 1..Len(block.messages[i].data_items) :
            /\ (j > 1 => SlotOf(block.messages[i].data_items[j - 1].id)
                           < SlotOf(block.messages[i].data_items[j].id))
            /\ \A f \in 2..Len(block.messages[i].data_items[j].fields) :
                 DeclaredIndex(DeclaredNames(DataItems[block.messages[i].data_items[j].id].fields),
                               block.messages[i].data_items[j].fields[f - 1].name)
                 < DeclaredIndex(DeclaredNames(DataItems[block.messages[i].data_items[j].id].fields),
                                 block.messages[i].data_items[j].fields[f].name)

\* a block of several records has been returned, one record with several items,
\* one item with several fields
C8_SeveralRecordsItemsAndFields ==
    /\ pc = "done"
    /\ Len(block.messages) >= 2
    /\ \E i \in 1..Len(block.messages) :
         /\ Len(block.messages[i].data_items) >= 2
         /\ \E j \in 1..Len(block.messages[i].data_items) :
              Len(block.messages[i].data_items[j].fields) >= 2

C10_RecordCeiling ==
    Len(block.messages) <= 1024

\* C15: decode_block terminates on every input, in strict and in lenient mode and
\* for every registered category: each iteration of a record loop either advances
\* the cursor by at least one byte or leaves the loop, and a call that has begun
\* returns.
C15_DecodeBlockTerminates ==
    /\ [][ (pc \in {"multirecord", "traditional"} /\ pc' = pc)
              => position' >= position + 1 ]_vars
    /\ [](Running => <>(pc = "done"))

\* a lenient category-2 call that threw at every attempt up to the loop's limit
\* has returned
C15_ReturnedAfterManyRetries ==
    /\ pc = "done"
    /\ ~strict_validation_
    /\ block.category = 2
    /\ record_count > MaxRecordCount
    /\ Len(raised) > MaxRecordCount

\* C16: throughout a decode_block call the cursor position is at most the size
\* of the buffer it reads (a read or item parse that would pass the end fails
\* instead of advancing).
C16_CursorWithinBuffer ==
    (pc \in {"multirecord", "traditional", "finish", "done"} /\ Len(data) >= 3)
        => position <= Len(data)

\* C19: when the FX scan of a Variable item runs past the end of the available
\* bytes, the enclosing record is failed: no valid record of the result holds
\* such an item.
C19_VariableOverrunFailsRecord ==
    \A i \in 1..Len(block.messages) :
        (\E j \in 1..Len(block.messages[i].data_items) :
            /\ DataItems[block.messages[i].data_items[j].id].format = "VARIABLE"
            /\ block.messages[i].data_items[j].error_message
                 = "Insufficient data for variable length field")
          => ~block.messages[i].valid

(***************************************************************************)
(* Properties of a repeated call (specification SpecTwice)                 *)
(***************************************************************************)
\* C14: two calls of decode_block with the same input bytes, the same registry
\* contents and the same configuration return equal results in every field: when
\* the second call has returned, its block equals the block of the first call.
C14_SecondCallEqual ==
    (pc = "done" /\ earlier # <<>>) => block = earlier[1]

(***************************************************************************)
(* Properties of the two traversals (specification SpecBoth)               *)
(***************************************************************************)
\* the records of a block without their category number
RecordsOf(b) ==
    [i \in 1..Len(b.messages) |->
        [length |-> b.messages[i].length, valid |-> b.messages[i].valid,
         error_message |-> b.messages[i].error_message,
         data_items |-> b.messages[i].data_items]]

\* C28: the multi-record traversal (category 2) and the traditional traversal
\* (every other category) applied to the same body with the same schema produce
\* the same sequence of records, with the same items, field values, validity
\* flags and lengths.
C28_TraversalsAgree ==
    (pc = "done" /\ earlier # <<>>) => RecordsOf(block) = RecordsOf(earlier[1])

(***************************************************************************)
(* Properties of validation (specification SpecValidate)                   *)
(***************************************************************************)
\* validate_multirecord_block has returned its verdict on the decoded block
BlockValidated ==
    pc = "validated" /\ verdict[1].call = "validate_multirecord_block"

\* validate_message has returned its verdict on subject[1]
MessageValidated ==
    pc = "validated" /\ verdict[1].call = "validate_message"

\* the items the validation rules of kind mandatory name
MandatoryIds ==
    { ValidationRules[r].field :
        r \in { q \in 1..Len(ValidationRules) : ValidationRules[q].type = "mandatory" } }

\* every mandatory item is among the record's items
MandatoryPresent(record) ==
    \A id \in MandatoryIds : \E k \in 1..Len(record.data_items) : record.data_items[k].id = id

\* C11: for a decoded block of any category whose records are all valid but
\* where 3 plus the sum of the record lengths differs from the declared length,
\* validate_multirecord_block returns false when strict validation is on and
\* true when it is off.
C11_LengthMismatchVerdict ==
    ( /\ BlockValidated
      /\ block.valid
      /\ block.category \in categories_
      /\ Len(block.messages) > 0
      /\ \A i \in 1..Len(block.messages) : block.messages[i].valid
      /\ 3 + SumSeq(RecordLengths(block)) # block.length )
        => (verdict[1].result = ~strict_validation_)

\* C12: validate_message returns false for a record whose category is not
\* registered or whose valid flag is false; on a valid record of a registered
\* category it returns true when every mandatory item is present, and when one
\* is missing it returns false in strict mode and true in lenient mode.
C12_MandatoryVerdict ==
    MessageValidated =>
        verdict[1].result =
            ( /\ subject[1].category \in categories_
              /\ subject[1].valid
              /\ (MandatoryPresent(subject[1]) \/ ~strict_validation_) )

\* validate_message has, in strict mode, refused a valid record of a registered
\* category that has the item I002/000 and lacks I002/010
C12_StrictRefusedMissingMandatory ==
    /\ MessageValidated
    /\ strict_validation_
    /\ subject[1].category \in categories_
    /\ subject[1].valid
    /\ "I002/000" \in { subject[1].data_items[k].id : k \in 1..Len(subject[1].data_items) }
    /\ ~MandatoryPresent(subject[1])
    /\ ~verdict[1].result

\* C13: for the conditional rule of I002/020 (condition message_type == 2): in
\* strict mode validate_message returns false for a valid record of a registered
\* category whose MESSAGE_TYPE is 2 and that has no item I002/020.
C13_ConditionalVerdict ==
    ( /\ MessageValidated
      /\ strict_validation_
      /\ subject[1].category \in categories_
      /\ subject[1].valid
      /\ \E k \in 1..Len(subject[1].data_items) :
            /\ subject[1].data_items[k].id = "I002/000"
            /\ \E f \in 1..Len(subject[1].data_items[k].fields) :
                  /\ subject[1].data_items[k].fields[f].name = "MESSAGE_TYPE"
                  /\ subject[1].data_items[k].fields[f].value.v = 2
      /\ \A k \in 1..Len(subject[1].data_items) : subject[1].data_items[k].id # "I002/020" )
        => ~verdict[1].result

(***************************************************************************)
(* Properties of the FSPEC expansion (specification SpecFspec)             *)
(***************************************************************************)
\* C6: an FSPEC whose first FspecSafetyLimit bytes all have FX = 1 is rejected,
\* and parse_field_specification never returns an FSPEC whose last byte has
\* FX = 1.
C6_ChainCeilingRejected ==
    pc = "expanded"
        => /\ (/\ Len(fs_in) >= FspecSafetyLimit
               /\ \A i \in 1..FspecSafetyLimit : BitSet(fs_in[i], 0)) => ~fs_out.ok
           /\ fs_out.ok => ~BitSet(fs_out.fspec[Len(fs_out.fspec)], 0)

\* C7: for every FSPEC parse_field_specification returns and every UAP,
\* parse_uap_items selects slot 7k + (8 - b) exactly when bit b (7..1) of FSPEC
\* byte k is set and the UAP has that slot; bit 0 never selects a slot.
C7_SelectionRule ==
    (pc = "expanded" /\ fs_out.ok)
        => /\ { fs_out.slots[i] : i \in 1..Len(fs_out.slots) }
                = RuleSlots(fs_out.fspec, fs_uap)
           /\ \A i \in 1..(Len(fs_out.slots) - 1) : fs_out.slots[i] < fs_out.slots[i + 1]

\* C27: for a fixed UAP, FSPEC expansion is injective: two different FSPEC byte
\* sequences accepted by parse_field_specification never yield the same ordered
\* list of selected items from parse_uap_items.
C27_ExpansionInjective ==
    (pc = "expanded" /\ fs_out.ok /\ fs_uap > 0)
        => \A other \in FspecInputs :
              ( /\ parse_field_specification(other, 0).ok
                /\ parse_field_specification(other, 0).fspec # fs_out.fspec )
                => parse_uap_items(parse_field_specification(other, 0).fspec,
                                   NumberedUap(fs_uap)) # fs_out.slots

(***************************************************************************)
(* Properties of parse_data_item (specification SpecItem)                  *)
(***************************************************************************)
\* C17: when a Fixed item's declared length is greater than the number of bytes
\* left in the buffer, parse_data_item returns the item with valid = false and an
\* error message.
C17_ShortFixedItemFails ==
    (/\ pc = "parsed"
     /\ it_call[1].item_def.format = "FIXED"
     /\ it_call[1].item_def.has_length
     /\ it_call[1].position + it_call[1].item_def.length > Len(it_call[1].data))
        => /\ ~it_out[1].item.valid
           /\ it_out[1].item.error_message # ""

\* C18: for a Variable item starting at offset s, the first byte at or after s
\* with FX = 0 being at offset s + n - 1 inside the buffer, parse_data_item returns
\* a valid item and leaves the cursor at s + n.
C18_VariableItemEndsAtFirstFX0 ==
    (pc = "parsed" /\ it_call[1].item_def.format = "VARIABLE")
        => \A n \in 1..(Len(it_call[1].data) - it_call[1].position) :
              (/\ ~BitSet(it_call[1].data[it_call[1].position + n], 0)
               /\ \A m \in 1..(n - 1) : BitSet(it_call[1].data[it_call[1].position + m], 0))
                 => /\ it_out[1].item.valid
                    /\ it_out[1].position = it_call[1].position + n

\* a Variable item of several bytes has been parsed
C18_LongVariableItemParsed ==
    /\ pc = "parsed"
    /\ it_call[1].item_def.format = "VARIABLE"
    /\ it_call[1].position + 3 <= Len(it_call[1].data)
    /\ BitSet(it_call[1].data[it_call[1].position + 1], 0)
    /\ BitSet(it_call[1].data[it_call[1].position + 2], 0)
    /\ ~BitSet(it_call[1].data[it_call[1].position + 3], 0)
    /\ it_out[1].item.valid

\* C20: for an Explicit item starting at offset s whose first byte is L,
\* parse_data_item leaves the cursor at s + L, and parses the item only when
\* L >= 1 and those L bytes lie inside the buffer.
C20_ExplicitItemWithinBuffer ==
    (/\ pc = "parsed"
     /\ it_call[1].item_def.format = "EXPLICIT"
     /\ it_call[1].position < Len(it_call[1].data))
        => IF /\ it_call[1].data[it_call[1].position + 1] >= 1
              /\ it_call[1].position + it_call[1].data[it_call[1].position + 1]
                    <= Len(it_call[1].data)
           THEN /\ it_out[1].item.valid
                /\ it_out[1].position
                     = it_call[1].position + it_call[1].data[it_call[1].position + 1]
           ELSE ~it_out[1].item.valid

\* bit number n of the buffer d counted from the most significant bit of its
\* first byte (bit 0), as 0 or 1
BitAt(d, n) == IF BitSet(d[(n \div 8) + 1], 7 - (n % 8)) THEN 1 ELSE 0

\* the number formed by the bits [first, first + bits) of d, the first bit the
\* most significant
RECURSIVE BitsAt(_, _, _)
BitsAt(d, first, bits) ==
    IF bits = 0 THEN 0
    ELSE 2 * BitsAt(d, first, bits - 1) + BitAt(d, first + bits - 1)

\* the sum of the widths of the declared fields before field k
RECURSIVE BitOffsetOf(_, _)
BitOffsetOf(field_defs, k) ==
    IF k <= 1 THEN 0 ELSE BitOffsetOf(field_defs, k - 1) + field_defs[k - 1].bits

\* the sum of the widths of all the declared fields
GroupBits(field_defs) == BitOffsetOf(field_defs, Len(field_defs) + 1)

\* what an unsigned or boolean field shows for the bit pattern raw
ShownValue(field_def, raw) ==
    IF field_def.type = "bool" THEN (IF raw # 0 THEN 1 ELSE 0) ELSE raw

UnsignedTypes ==
    {"bool", "uint1", "uint2", "uint3", "uint4", "uint5", "uint6", "uint7", "uint8",
     "uint12", "uint14", "uint16", "uint24"}

\* C21: for a Repetitive item with declared group length g starting at offset s
\* whose first byte is the repetition count R, parse_data_item leaves the cursor
\* at s + 1 + R * g and emits the declared field group R times, the i-th group
\* decoded from the bytes s + 1 + (i - 1) * g .. s + i * g.
C21_RepetitiveGroups ==
    ( /\ pc = "parsed"
      /\ it_call[1].item_def.format = "REPETITIVE"
      /\ it_call[1].item_def.has_length
      /\ it_call[1].position < Len(it_call[1].data)
      /\ it_call[1].position + 1
            + it_call[1].data[it_call[1].position + 1] * it_call[1].item_def.length
              <= Len(it_call[1].data) )
        => LET s      == it_call[1].position
               R      == it_call[1].data[s + 1]
               g      == it_call[1].item_def.length
               group  == it_call[1].item_def.fields
               fields == it_out[1].item.fields
           IN  /\ it_out[1].item.valid
               /\ it_out[1].position = s + 1 + R * g
               /\ Len(fields) = R * Len(group)
               /\ \A i \in 1..R : \A j \in 1..Len(group) :
                     /\ fields[(i - 1) * Len(group) + j].name = group[j].name
                     /\ fields[(i - 1) * Len(group) + j].value.v
                          = BitsAt(it_call[1].data,
                                   8 * (s + 1 + (i - 1) * g) + BitOffsetOf(group, j),
                                   group[j].bits)

\* C22: within an item, each declared field of width bits is decoded from the
\* bits [o, o + bits) of the item body, most significant bit first, o being the
\* sum of the widths of the declared fields before it (here: for the unsigned
\* and boolean fields of the Fixed and Variable items whose body lies inside the
\* buffer).
C22_FieldsAtRunningBitOffset ==
    ( /\ pc = "parsed"
      /\ it_call[1].item_def.format \in {"FIXED", "VARIABLE"}
      /\ it_out[1].item.valid
      /\ it_out[1].position <= Len(it_call[1].data) )
        => \A k \in 1..Len(it_call[1].item_def.fields) :
              ( /\ it_call[1].item_def.fields[k].has_bits
                /\ it_call[1].item_def.fields[k].type \in UnsignedTypes
                /\ \A m \in 1..k : it_call[1].item_def.fields[m].name # "spare"
                /\ BitOffsetOf(it_call[1].item_def.fields, k + 1)
                      <= 8 * (it_out[1].position - it_call[1].position) )
                => /\ k <= Len(it_out[1].item.fields)
                   /\ it_out[1].item.fields[k].name = it_call[1].item_def.fields[k].name
                   /\ it_out[1].item.fields[k].value.v
                        = ShownValue(it_call[1].item_def.fields[k],
                                     BitsAt(it_call[1].data,
                                            8 * it_call[1].position
                                              + BitOffsetOf(it_call[1].item_def.fields, k),
                                            it_call[1].item_def.fields[k].bits))

\* C23: for the item I002/080 (WE_VALUE:7, FX:1 with condition FX==1 and the
\* extension fields WE_VALUE2:7, FX2:1): the extension fields are parsed exactly
\* when the parsed FX is 1, they are decoded from the byte that follows the
\* first one, and on the bytes 03 02 the item yields WE_VALUE = 1, FX = 1,
\* WE_VALUE2 = 1, FX2 = 0 and two bytes are consumed.
C23_ExtensionFromFollowingByte ==
    ( /\ pc = "parsed"
      /\ it_call[1].item_def.id = "I002/080"
      /\ it_out[1].item.valid
      /\ it_call[1].position + 2 <= Len(it_call[1].data) )
        => LET s      == it_call[1].position
               d      == it_call[1].data
               fields == it_out[1].item.fields
           IN  /\ Len(fields) >= 2
               /\ (Len(fields) = 4) = (fields[2].value.v = 1)
               /\ Len(fields) = 4
                     => /\ fields[3].name = "WE_VALUE2"
                        /\ fields[3].value.v = d[s + 2] \div 2
                        /\ fields[4].name = "FX2"
                        /\ fields[4].value.v = d[s + 2] % 2
               /\ (d[s + 1] = 3 /\ d[s + 2] = 2)
                     => /\ Len(fields) = 4
                        /\ fields[1].value.v = 1 /\ fields[2].value.v = 1
                        /\ fields[3].value.v = 1 /\ fields[4].value.v = 0
                        /\ it_out[1].position = s + 2

\* C24: when decoding a field of an item fails, the returned item has
\* valid = false and an error message, and no field declared after the failing
\* one is attempted or emitted.
C24_FieldFailureFailsItem ==
    pc = "parsed"
        => \A k \in 1..Len(it_out[1].item.fields) :
              ~it_out[1].item.fields[k].valid
                => /\ ~it_out[1].item.valid
                   /\ it_out[1].item.error_message # ""
                   /\ k = Len(it_out[1].item.fields)

\* C25: every decoded field of a signed type declared with width bits has a
\* value in [-2^(bits-1), 2^(bits-1) - 1].
C25_SignedValueWithinDeclaredWidth ==
    pc = "parsed"
        => \A k \in 1..Len(it_out[1].item.fields) :
              \A f \in 1..Len(it_call[1].item_def.fields) :
                 ( /\ it_out[1].item.fields[k].valid
                   /\ it_out[1].item.fields[k].name = it_call[1].item_def.fields[f].name
                   /\ it_call[1].item_def.fields[f].has_bits
                   /\ it_call[1].item_def.fields[f].type \in {"int8", "int16", "int24", "int32"} )
                   => /\ it_out[1].item.fields[k].value.v
                           >= 0 - Pow2(it_call[1].item_def.fields[f].bits - 1)
                      /\ it_out[1].item.fields[k].value.v
                           <= Pow2(it_call[1].item_def.fields[f].bits - 1) - 1

(***************************************************************************)
(* Properties of decode_file (specification SpecFile)                      *)
(***************************************************************************)
\* C29: the framing loop's offset strictly increases on every iteration (also
\* when a header declares a length of 0, 1 or 2), each block passed to
\* decode_block is exactly the declared number of bytes taken at the offset, and
\* nothing past the end of the file is decoded.
C29_FramingAdvances ==
    /\ [][ Len(blocks') > Len(blocks) => offset' > offset ]_vars
    /\ [](file_pc = "decoding"
            => /\ Len(data) = block_length_at(file, offset)
               /\ offset + Len(data) <= Len(file)
               /\ \A i \in 1..Len(data) : data[i] = file[offset + i])
    /\ [](file_pc = "returned" => offset <= Len(file))

(***************************************************************************)
(* Properties of the bit helpers (specification SpecBits)                  *)
(***************************************************************************)
\* bit number n of d as BitAt, 0 past the end of d
BitOrZero(d, n) == IF n \div 8 < Len(d) THEN BitAt(d, n) ELSE 0

\* C26: writing v with set_bits_in_bytes(data, s, n, v) and reading with
\* extract_bits_from_bytes(data, s, n) returns v mod 2^n; the bit at s + i is
\* bit n - 1 - i of v (most significant first); every bit of data outside
\* [s, s + n) is unchanged, the bits of the bytes added being 0.
C26_WriteThenReadBack ==
    pc = "bits"
        => LET s == bits_call[1].start_bit
               n == bits_call[1].num_bits
               v == bits_call[1].value
           IN  /\ bits_out[1].read = v % Pow2(n)
               /\ \A i \in 0..(n - 1) :
                     BitAt(bits_out[1].data, s + i) = (v \div Pow2(n - 1 - i)) % 2
               /\ Len(bits_out[1].data) >= Len(bits_call[1].data)
               /\ \A k \in 0..(8 * Len(bits_out[1].data) - 1) :
                     (k < s \/ k >= s + n)
                        => BitAt(bits_out[1].data, k) = BitOrZero(bits_call[1].data, k)

\* a value with bits above its width was written over ones and zeros, across a
\* byte boundary, leaving ones on both sides
C26_WroteAcrossBytes ==
    /\ pc = "bits"
    /\ bits_call[1].data = <<165, 255>>
    /\ bits_call[1].start_bit = 6
    /\ bits_call[1].num_bits = 4
    /\ bits_call[1].value = 21
    /\ bits_out[1].read = 5
    /\ bits_out[1].data = <<165, 127>>

(***************************************************************************)
(* Properties of the registry (specification SpecRegistry)                 *)
(***************************************************************************)
\* the positions in the history of the loads of number c that returned true
SuccessfulLoads(c) ==
    { i \in 1..Len(loads) : loads[i].returned /\ loads[i].cat_num = c }

Latest(S) == CHOOSE i \in S : \A j \in S : j <= i

StrictlyAscending(v) == \A i \in 1..(Len(v) - 1) : v[i] < v[i + 1]

\* the files no load of which can succeed
UnloadableFiles == {"broken.xml", "bad_number.xml"}

\* C30: the registry holds one definition per category number for exactly the
\* numbers some load succeeded for, the definition being that of the latest
\* successful load of the number; a load of a file that cannot be parsed
\* returns false, and a call all of whose loads returned false leaves the
\* registry as it was; get_supported_categories returns exactly the registered
\* numbers, strictly ascending; decode_block resolves the category of a block
\* iff a load of that number has succeeded.
C30_RegistryFollowsLoads ==
    /\ [](/\ DOMAIN schemas = categories_
          /\ categories_ = { loads[i].cat_num : i \in { j \in 1..Len(loads) : loads[j].returned } }
          /\ \A c \in categories_ :
                schemas[c] = loads[Latest(SuccessfulLoads(c))].xml
          /\ \A i \in 1..Len(loads) :
                loads[i].xml \in UnloadableFiles => ~loads[i].returned)
    /\ [][ (\A i \in (Len(loads) + 1)..Len(loads') : ~loads'[i].returned)
              => (schemas' = schemas /\ categories_' = categories_) ]_vars
    /\ [][ listing' # listing
              => /\ StrictlyAscending(listing'[1])
                 /\ { listing'[1][i] : i \in 1..Len(listing'[1]) } = categories_ ]_vars
    /\ [][ (pc = "idle" /\ pc' # "idle" /\ Len(data') >= 3)
              => (pc' # "done" <=> SuccessfulLoads(data'[1]) # {}) ]_vars
    /\ [](pc = "done" /\ block.valid => SuccessfulLoads(block.category) # {})

\* category 2 was loaded from one file, then from a file that declares 258,
\* then a load failed; the registry was listed and a block of category 2 was
\* decoded against the second definition
C30_ReloadedThenResolved ==
    /\ Len(loads) = 3
    /\ loads[1].xml = "cat02.xml" /\ loads[1].returned
    /\ loads[2].xml = "cat258.xml" /\ loads[2].returned /\ loads[2].cat_num = 2
    /\ loads[3].xml = "bad_number.xml" /\ ~loads[3].returned
    /\ schemas[2] = "cat258.xml"
    /\ listing = << << 2 >> >>
    /\ pc = "done"
    /\ block.category = 2
    /\ block.valid

====
